---- MODULE Spec2Model ----
(***************************************************************************)
(* Sh4d0wDB: hybrid retrieval and Reciprocal Rank Fusion.                  *)
(*                                                                         *)
(* The module models the fusion routine _rrf of the PostgreSQL and SQLite  *)
(* backends (the two copies are the same code), the search() methods of    *)
(* the three backends, the construction, query and ping of the connectors, *)
(* concurrent first calls on one SQLite instance, and the re-embedding     *)
(* scripts.                                                                *)
(*                                                                         *)
(* Numbers.  Python computes the scores in binary floating point.  The     *)
(* model computes them as exact fractions over the common denominator Den  *)
(* (the least common multiple of the denominators K+rank+1 that can        *)
(* occur), so a cumulative score is the integer numerator s of s/Den.      *)
(* For the ranks within the bounds two different fractions differ by far   *)
(* more than a double's rounding error, so the order and the equality of   *)
(* the floats are those of the fractions.  A reported score, the value of  *)
(* round(score, 6), is an integer number of millionths.                    *)
(***************************************************************************)
EXTENDS Integers, Sequences, FiniteSets, TLC

\* ------------------------------------------------------------------ bounds

\* Longest lexical (FTS) candidate list and longest vector candidate list.
MaxFts == 3
MaxVec == 2
\* Largest requested n.
MaxN == 3
\* How many times fusion is run on the same arguments.
MaxCalls == 2

\* The most concurrent callers of one backend instance.
MaxThreads == 2

\* The most rows the re-embedding scripts fetch.
MaxRows == 5

\* reembed.py's BATCH_SIZE, which is 100 in the script: the rows of one
\* request to the embedding API and of one transaction.
BATCH_SIZE == 2

\* The smoothing constant: the default of _rrf's parameter k, which no caller
\* overrides.
K == 60

\* The digits round(score, 6) keeps.
Decimals == 6

\* Record ids: the integer primary keys of the memories table.
Ids == {1, 2, 3, 4}

\* Python's None.
None == "None"

\* No open connection: before _connect() and after conn.close().
NoConn == [open |-> FALSE, ext |-> FALSE]

\* No object constructed, and no run of a client program yet.
NoInstance == [class |-> None]

NoReply == [cause |-> None]

\* Nothing has run yet: no probe on the instance, no query in the call.
NoneIssued == [probe |-> 0, lexical |-> 0, like |-> 0, embed |-> 0, vector |-> 0]

\* The callers of one instance, none of which has called yet.
Threads == 1..MaxThreads

NoThreads == [t \in Threads |-> [pc |-> "idle", loaded |-> FALSE, ext |-> FALSE]]

\* A script that has not started: no rows fetched, nothing written.
NoScript ==
    [program |-> None, pc |-> "start", total |-> 0, i |-> 0, k |-> 0,
     updated |-> 0, errors |-> 0, pending |-> {}, table |-> {}]

\* ----------------------------------------------------------------- helpers

Min(a, b) == IF a <= b THEN a ELSE b

Max(a, b) == IF a >= b THEN a ELSE b

Abs(a) == IF a >= 0 THEN a ELSE 0 - a

RECURSIVE GCD(_, _)
GCD(a, b) == IF b = 0 THEN a ELSE GCD(b, a % b)

LCM(a, b) == (a \div GCD(a, b)) * b

\* All sequences over S of length at most m.
SeqsUpTo(S, m) == UNION {[1..l -> S] : l \in 0..m}

\* The ranks enumerate() can produce within the bounds.
MaxRank == Max(MaxFts, MaxVec)

RECURSIVE LCMUpTo(_, _)
LCMUpTo(k, r) == IF r = 0 THEN 1 ELSE LCM(LCMUpTo(k, r - 1), k + r)

\* The common denominator of every contribution 1/(k+rank+1), rank < MaxRank.
Den == LCMUpTo(K, MaxRank)

\* ------------------------------------------------------- rows of the store

\* A row as a leg's SELECT returns it: id, c (the content, cut to 800
\* characters), cat, title, summary, src.  title, summary and source_file
\* are nullable columns: row 2 has no title, row 3 no summary and no source.
Row(i) ==
    [id      |-> i,
     c       |-> <<"content", i>>,
     cat     |-> IF i % 2 = 0 THEN "contacts" ELSE "cases",
     title   |-> IF i = 2 THEN None ELSE "title",
     summary |-> IF i = 3 THEN None ELSE "summary",
     src     |-> IF i = 3 THEN None ELSE "file"]

\* dict.get(key, default): the default only when the key is absent.
Get(d, key, default) == IF key \in DOMAIN d THEN d[key] ELSE default

\* str(result["id"]) of an integer id: its decimal digits.
RECURSIVE Str(_)
Str(i) == IF i < 10 THEN <<i>> ELSE Str(i \div 10) \o <<i % 10>>

\* ------------------------------------------------------------------ dicts
\* A Python dict keeps its keys in insertion order: a sequence of
\* <<key, value>> pairs with no key twice.

DictHas(d, key) == \E j \in 1..Len(d) : d[j][1] = key

DictGet(d, key, default) ==
    IF DictHas(d, key)
    THEN d[CHOOSE j \in 1..Len(d) : d[j][1] = key][2]
    ELSE default

\* Mutant: a list of pairs in place of the dict, every assignment appended.
DictSetAppend(d, key, value) == Append(d, <<key, value>>)

\* d[key] = value: a present key keeps its place, a new key goes last.
DictSet(d, key, value) ==
    IF DictHas(d, key)
    THEN [j \in 1..Len(d) |-> IF d[j][1] = key THEN <<key, value>> ELSE d[j]]
    ELSE Append(d, <<key, value>>)

\* d.setdefault(key, value)
DictSetDefault(d, key, value) ==
    IF DictHas(d, key) THEN d ELSE Append(d, <<key, value>>)

\* ----------------------------------------------------------------- fusion

\* Mutant: the contribution without the + 1, 1 / (k + rank).
ContributionNoPlusOne(k, rank) == Den \div (k + rank)

\* 1.0 / (k + rank + 1), as a numerator over Den.
Contribution(k, rank) == Den \div (k + rank + 1)

\* Mutant: the score map kept from one call to the next.
KeptScoreMap(left) == left

\* scores = {}: the map a call starts from, whatever an earlier call left.
NewScoreMap(left) == <<>>

\* Mutant: a contribution overwrites the score instead of adding to it.
RECURSIVE ScoreLoopOverwrite(_, _, _, _)
ScoreLoopOverwrite(scores, list, rank, k) ==
    IF rank >= Len(list) THEN scores
    ELSE ScoreLoopOverwrite(DictSet(scores, Str(list[rank + 1]["id"]),
                                    Den \div (k + rank + 1)),
                            list, rank + 1, k)

\* for rank, result in enumerate(results):
\*     scores[doc_id] = scores.get(doc_id, 0) + 1.0 / (k + rank + 1)
RECURSIVE ScoreLoop(_, _, _, _)
ScoreLoop(scores, list, rank, k) ==
    IF rank >= Len(list) THEN scores
    ELSE LET doc_id == Str(list[rank + 1]["id"])
         IN  ScoreLoop(DictSet(scores, doc_id,
                               DictGet(scores, doc_id, 0) + Contribution(k, rank)),
                       list, rank + 1, k)

\* The FTS loop's cache[doc_id] = result.
RECURSIVE CacheFts(_, _, _)
CacheFts(cache, list, rank) ==
    IF rank >= Len(list) THEN cache
    ELSE CacheFts(DictSet(cache, Str(list[rank + 1]["id"]), list[rank + 1]),
                  list, rank + 1)

\* The vector loop's cache.setdefault(doc_id, result).
RECURSIVE CacheVec(_, _, _)
CacheVec(cache, list, rank) ==
    IF rank >= Len(list) THEN cache
    ELSE CacheVec(DictSetDefault(cache, Str(list[rank + 1]["id"]), list[rank + 1]),
                  list, rank + 1)

\* The score map after both loops: the FTS list first, then the vector list.
RrfScores(start, fts, vec, k) == ScoreLoop(ScoreLoop(start, fts, 0, k), vec, 0, k)

RrfCache(fts, vec) == CacheVec(CacheFts(<<>>, fts, 0), vec, 0)

\* Mutant: > for >=, so an item goes before the items of equal score.
InsertDescBeforeEqual(sorted, item) ==
    LET p == Cardinality({j \in 1..Len(sorted) : sorted[j][2] > item[2]})
    IN  SubSeq(sorted, 1, p) \o <<item>> \o SubSeq(sorted, p + 1, Len(sorted))

\* One step of a stable descending sort: item goes after every item whose
\* score is at least its own.  sorted is in descending order, so these are
\* its first p items.
InsertDesc(sorted, item) ==
    LET p == Cardinality({j \in 1..Len(sorted) : sorted[j][2] >= item[2]})
    IN  SubSeq(sorted, 1, p) \o <<item>> \o SubSeq(sorted, p + 1, Len(sorted))

\* Mutant: the sort without reverse=True, ascending.
RECURSIVE SortedAsc(_)
SortedAsc(items) ==
    IF items = <<>> THEN <<>>
    ELSE LET rest == SortedAsc(SubSeq(items, 1, Len(items) - 1))
             item == items[Len(items)]
             p    == Cardinality({j \in 1..Len(rest) : rest[j][2] <= item[2]})
         IN  SubSeq(rest, 1, p) \o <<item>> \o SubSeq(rest, p + 1, Len(rest))

\* Mutant: no sort at all, the items in insertion order.
Unsorted(items) == items

\* sorted(scores.items(), key=lambda x: x[1], reverse=True): stable, so items
\* of equal score keep the order of scores.items(), the insertion order.
RECURSIVE SortedDesc(_)
SortedDesc(items) ==
    IF items = <<>> THEN <<>>
    ELSE InsertDesc(SortedDesc(SubSeq(items, 1, Len(items) - 1)), items[Len(items)])

\* Mutant: seq[:m + 1], one record too many.
SliceOneMore(seq, m) == SubSeq(seq, 1, Min(m + 1, Len(seq)))

\* seq[:m]
Slice(seq, m) ==
    IF m >= 0 THEN SubSeq(seq, 1, Min(m, Len(seq)))
    ELSE SubSeq(seq, 1, Max(0, Len(seq) + m))

\* The first `left` decimal digits of rem/den after q, and what is left of
\* the fraction, by long division.
RECURSIVE Digits(_, _, _, _)
Digits(q, rem, den, left) ==
    IF left = 0 THEN <<q, rem>>
    ELSE Digits(q * 10 + (rem * 10) \div den, (rem * 10) % den, den, left - 1)

\* Mutant: the score cut to six decimals, not rounded.
Truncate6(num, den) == Digits(num \div den, num % den, den, Decimals)[1]

\* round(num/den, 6), in millionths: to the nearest, a tie to the even one.
Round6(num, den) ==
    LET d   == Digits(num \div den, num % den, den, Decimals)
        q   == d[1]
        rem == d[2]
    IN  IF 2 * rem > den THEN q + 1
        ELSE IF 2 * rem < den THEN q
        ELSE IF q % 2 = 0 THEN q ELSE q + 1

\* ranked = sorted(...)[:n]
Ranked(scores, m) == Slice(SortedDesc(scores), m)

\* One record of the output.
Shape(result, score) ==
    [id      |-> result["id"],
     score   |-> Round6(score, Den),
     title   |-> Get(result, "title", ""),
     summary |-> Get(result, "summary", ""),
     cat     |-> Get(result, "cat", ""),
     src     |-> Get(result, "src", ""),
     content |-> result["c"]]

\* Mutant: a fusion that indexes the first vector candidate and so raises on
\* an empty vector list.
RrfRaisesOnEmpty(fts, vec, ranked, cache) == vec = <<>>

\* result["id"] in either loop, or result["c"] of a ranked record, raises
\* KeyError when the key is missing.  Nothing else in _rrf can raise.
RrfRaises(fts, vec, ranked, cache) ==
    \/ \E j \in 1..Len(fts) : "id" \notin DOMAIN fts[j]
    \/ \E j \in 1..Len(vec) : "id" \notin DOMAIN vec[j]
    \/ \E j \in 1..Len(ranked) : "c" \notin DOMAIN DictGet(cache, ranked[j][1], <<>>)

\* The output loop: one record for each ranked (doc_id, score).
Results(ranked, cache) ==
    [j \in 1..Len(ranked) |-> Shape(DictGet(cache, ranked[j][1], <<>>), ranked[j][2])]

\* ------------------------------------------------------------------ state

VARIABLES
    fts_results,      \* the lexical candidate list
    vector_results,   \* the vector candidate list
    n,                \* the requested number of results
    scores,           \* the score map of the last run of _rrf
    results,          \* what the last run returned
    outcome,          \* "none" before a run, then "ok" or "raise"
    calls,            \* runs of _rrf so far
    prev_results,     \* what the run before the last returned
    given,            \* the argument lists as the caller built them
    backend,          \* the backend of the instance: "sqlite", "mysql", "postgres"
    pc,               \* where the current search call stands
    vec_available,    \* SQLiteBackend._vec_available: None, "True" or "False"
    conn,             \* the connection of the call: open or not, with sqlite-vec or not
    category,         \* the category argument of the call, or None
    embedding,        \* what _embed returned: None or a vector
    rows,             \* MySQLBackend.search: the rows of the query
    faults,           \* what went wrong around the current call: <<leg, cause>>
    instance,         \* the constructed object: its class and its fields
    reply,            \* what the last run of the client program gave
    issued,           \* how often each stage ran: the probe, and per call the queries
    threads,          \* concurrent callers of one instance: where each stands
    writes,           \* the values assigned to _vec_available, in order
    script            \* the re-embedding script: its locals and the table

vars == <<fts_results, vector_results, n, scores, results, outcome, calls,
          prev_results, given, backend, pc, vec_available, conn, category,
          embedding, rows, faults, instance, reply, issued, threads, writes,
          script>>

fusionVars == <<calls, prev_results, given>>

searchVars == <<backend, pc, vec_available, conn, category, embedding, rows>>

connectorVars == <<instance, reply>>

raceVars == <<threads, writes>>

\* Candidate lists of any content, repeated ids included.
FtsLists == {[j \in DOMAIN s |-> Row(s[j])] : s \in SeqsUpTo(Ids, MaxFts)}

VecLists == {[j \in DOMAIN s |-> Row(s[j])] : s \in SeqsUpTo(Ids, MaxVec)}

\* _rrf(fts_results, vector_results, n): a run of fusion on the current
\* lists.  It writes the score map, the outcome and the returned list.
RunRrf ==
    \E filled \in {RrfScores(NewScoreMap(scores), fts_results, vector_results, K)} :
    \E cache \in {RrfCache(fts_results, vector_results)} :
    \E ranked \in {Ranked(filled, n)} :
        IF RrfRaises(fts_results, vector_results, ranked, cache)
        THEN /\ outcome' = "raise"
             /\ UNCHANGED <<scores, results>>
        ELSE /\ outcome' = "ok"
             /\ scores' = filled
             /\ results' = Results(ranked, cache)

\* ------------------------------------------------- fusion on any two lists

Init ==
    /\ fts_results \in FtsLists
    /\ vector_results \in VecLists
    /\ n \in 0..MaxN
    /\ scores = <<>>
    /\ results = <<>>
    /\ outcome = "none"
    /\ calls = 0
    /\ prev_results = <<>>
    /\ given = <<fts_results, vector_results>>
    /\ backend = "sqlite"
    /\ pc = "fuse"
    /\ vec_available = None
    /\ conn = NoConn
    /\ category = None
    /\ embedding = None
    /\ rows = <<>>
    /\ faults = {}
    /\ instance = NoInstance
    /\ reply = NoReply
    /\ issued = NoneIssued
    /\ threads = NoThreads
    /\ writes = <<>>
    /\ script = NoScript

\* A caller runs _rrf on the lists it holds.  The run reads the lists and
\* writes neither of them.
CallRrf ==
    /\ calls < MaxCalls
    /\ outcome # "raise"
    /\ RunRrf
    /\ prev_results' = results
    /\ calls' = calls + 1
    /\ UNCHANGED <<fts_results, vector_results, n, given>>
    /\ UNCHANGED searchVars
    /\ UNCHANGED <<faults, connectorVars, issued, raceVars, script>>

Next == CallRrf

Spec == Init /\ [][Next]_vars

\* ------------------------------------------------------------ the store

\* The sequences over S of length at most m with no element twice: what a
\* SELECT over the primary key returns.
UniqueSeqsUpTo(S, m) ==
    {s \in SeqsUpTo(S, m) : \A i, j \in DOMAIN s : s[i] = s[j] => i = j}

\* The ids of the rows a "category = ?" clause lets through; no clause when
\* the category argument is None (or empty).
InCategory(cat) == IF cat = None THEN Ids ELSE {i \in Ids : Row(i)["cat"] = cat}

\* What a leg's query returns: rows of distinct ids within the category,
\* at most limit of them (the legs' LIMIT 50, cut to the bounds).
LegLists(cat, limit) ==
    {[j \in DOMAIN s |-> Row(s[j])] : s \in UniqueSeqsUpTo(InCategory(cat), limit)}

\* MySQL relevance scores, in ten-millionths: 1.5000004 and 0.0906196.
NativeDen == 10 ^ (Decimals + 1)

NativeScores == {15000004, 906196}

\* The rows of the FULLTEXT query: the columns of Row and the relevance as
\* score, ORDER BY score DESC, LIMIT n.
FulltextLists(cat, limit) ==
    {[j \in DOMAIN s |-> Row(s[j]) @@ [score |-> sc[j]]] :
        <<s, sc>> \in {x \in UniqueSeqsUpTo(InCategory(cat), limit)
                               \X SeqsUpTo(NativeScores, limit) :
                          /\ Len(x[1]) = Len(x[2])
                          /\ \A i, j \in DOMAIN x[2] : i < j => x[2][i] >= x[2][j]}}

\* Mutant: the LIKE query without its category clause.
LikeListsNoCategory(cat, limit) ==
    {[j \in DOMAIN s |-> Row(s[j]) @@ [score |-> NativeDen]] :
        s \in UniqueSeqsUpTo(Ids, limit)}

\* The rows of the LIKE query: "1.0 as score" on every row, the category
\* clause of the FULLTEXT query, LIMIT n.
LikeLists(cat, limit) ==
    {[j \in DOMAIN s |-> Row(s[j]) @@ [score |-> NativeDen]] :
        s \in UniqueSeqsUpTo(InCategory(cat), limit)}

\* ------------------------------------------------- the embedding service

\* What the embedding service does with one request: it answers with a
\* vector, or the request times out, or the service is down, or the answer
\* is not the expected JSON.
EmbedResponses == {"vector", "timeout", "down", "malformed"}

\* Mutant: an except clause that catches the network errors only, so a
\* malformed answer raises out of _embed.
EmbedRaisesOnMalformed(response) ==
    IF response = "vector" THEN "vector"
    ELSE IF response = "malformed" THEN "raise"
    ELSE None

\* _embed(text): the vector, or None on any exception.
Embed(response) == IF response = "vector" THEN "vector" ELSE None

\* One more entry in the record of what went wrong around the call.
Fault(leg, cause) == faults \cup {<<leg, cause>>}

\* ------------------------------------------------- SQLiteBackend.search

\* Mutant: the vector leg attempted whatever the probe recorded.
VectorLegAlways(available) == TRUE

\* if self._vec_available:
VectorLegEnabled(available) == available = "True"

\* Mutant: the extension probed on every connection.
ProbeEveryConnection(available) == TRUE

\* Mutant: the extension probed again as long as it has not been loaded.
ProbeUntilAvailable(available) == available # "True"

\* if self._vec_available is None:
ProbeNeeded(available) == available = None

\* Mutant: a search that goes to the embedding first and leaves the lexical
\* query out.
FirstStageEmbed == "embed"

\* The first statement of search after the clauses are built is the lexical
\* query, under no condition.
FirstStage == "fts"

\* The start of a call: its arguments.
Enter(m, cat) ==
    /\ n' = m
    /\ category' = cat
    /\ UNCHANGED <<fts_results, vector_results, scores, results, outcome, embedding>>

\* One more run of a stage.
Issue(stage) == [issued EXCEPT ![stage] = @ + 1]

\* What loading sqlite-vec on a connection can give: the extension is
\* loaded, or the library is not found (load_extension raises
\* OperationalError), or the interpreter does not allow extensions
\* (enable_load_extension is missing or raises).
ProbeOutcomes == {"loaded", "no_extension", "not_permitted"}

\* Mutant: an except clause for sqlite3.OperationalError only.
LoadExtensionNarrowExcept(o) ==
    IF o = "loaded" THEN "True"
    ELSE IF o = "not_permitted" THEN "raise"
    ELSE "False"

\* try: enable_load_extension(True); load_extension("vec0"); True
\* except Exception: False
LoadExtension(o) == IF o = "loaded" THEN "True" ELSE "False"

\* A connection sqlite3.connect has just returned.
Opened(ext) == [open |-> TRUE, ext |-> ext]

\* Mutant: conn.close() as the last statement of the try block.
ClosedOnSuccess(c, raised) == IF raised THEN c ELSE NoConn

\* finally: conn.close(), on the way out of the try block, with or without
\* an exception.
Closed(c, raised) == NoConn

\* _connect(): sqlite3.connect may raise; a connection of an instance that
\* has not probed yet tries to load sqlite-vec and records whether it could,
\* any other connection is returned without the extension.  The caller goes
\* on at next.
Connect(next) ==
    \E opened \in BOOLEAN :
       IF ~opened
       THEN /\ faults' = Fault("connect", "unreachable")
            /\ pc' = "raised"
            /\ UNCHANGED <<conn, vec_available, issued>>
       ELSE IF ProbeNeeded(vec_available)
            THEN \E o \in ProbeOutcomes :
                 \E v \in {LoadExtension(o)} :
                    /\ issued' = Issue("probe")
                    /\ faults' = IF o = "loaded" THEN faults ELSE Fault("probe", o)
                    /\ IF v = "raise"
                       THEN /\ pc' = "raised"
                            /\ UNCHANGED <<conn, vec_available>>
                       ELSE /\ pc' = next
                            /\ vec_available' = v
                            /\ conn' = Opened(o = "loaded")
            ELSE /\ pc' = next
                 /\ conn' = Opened(FALSE)
                 /\ UNCHANGED <<vec_available, faults, issued>>

\* search(query, n, category): conn = self._connect().
SqliteConnect ==
    /\ backend = "sqlite"
    /\ pc = "idle"
    /\ \E m \in 0..MaxN, cat \in {None, "contacts"} : Enter(m, cat)
    /\ Connect(FirstStage)
    /\ UNCHANGED <<backend, rows>>
    /\ UNCHANGED fusionVars
    /\ UNCHANGED <<raceVars, script>>
    /\ UNCHANGED connectorVars

\* startup(): conn = self._connect(), outside the try.
SqliteStartup ==
    /\ backend = "sqlite"
    /\ pc = "idle"
    /\ Connect("startup")
    /\ UNCHANGED <<fts_results, vector_results, n, scores, results, outcome,
                   backend, category, embedding, rows>>
    /\ UNCHANGED fusionVars
    /\ UNCHANGED <<raceVars, script>>
    /\ UNCHANGED connectorVars

\* startup(): the SELECT over the startup table, whose exception gives "",
\* and conn.close().
SqliteStartupRead ==
    /\ backend = "sqlite"
    /\ pc = "startup"
    /\ pc' = "started"
    /\ \E failed \in BOOLEAN : conn' = Closed(conn, failed)
    /\ UNCHANGED <<fts_results, vector_results, n, scores, results, outcome,
                   backend, vec_available, category, embedding, rows, faults,
                   issued>>
    /\ UNCHANGED fusionVars
    /\ UNCHANGED <<raceVars, script>>
    /\ UNCHANGED connectorVars

\* The FTS5 query.  A failing statement (the file cannot be read, the FTS
\* table is missing, the MATCH expression is malformed) raises out of search
\* through the finally clause, which closes the connection.
SqliteFts ==
    /\ backend = "sqlite"
    /\ pc = "fts"
    /\ issued' = Issue("lexical")
    /\ \/ /\ fts_results' \in LegLists(category, MaxFts)
          /\ pc' = "embed"
          /\ UNCHANGED <<conn, faults>>
       \/ /\ \E cause \in {"unreachable", "index"} : faults' = Fault("lexical", cause)
          /\ pc' = "raised"
          /\ conn' = Closed(conn, TRUE)
          /\ UNCHANGED fts_results
    /\ UNCHANGED <<vector_results, n, scores, results, outcome, backend,
                   vec_available, category, embedding, rows>>
    /\ UNCHANGED fusionVars
    /\ UNCHANGED <<raceVars, script>>
    /\ UNCHANGED connectorVars

\* vector_results = []; if self._vec_available: embedding = self._embed(query).
SqliteEmbed ==
    /\ backend = "sqlite"
    /\ pc = "embed"
    /\ IF VectorLegEnabled(vec_available)
       THEN \E response \in EmbedResponses :
            \E e \in {Embed(response)} :
               /\ issued' = Issue("embed")
               /\ faults' = IF response = "vector" THEN faults
                            ELSE Fault("embed", response)
               /\ IF e = "raise"
                  THEN /\ pc' = "raised"
                       /\ conn' = Closed(conn, TRUE)
                       /\ UNCHANGED embedding
                  ELSE /\ embedding' = e
                       /\ pc' = IF e = None THEN "fuse" ELSE "vector"
                       /\ UNCHANGED conn
       ELSE /\ pc' = "fuse"
            /\ UNCHANGED <<embedding, conn, faults, issued>>
    /\ UNCHANGED <<fts_results, vector_results, n, scores, results, outcome,
                   backend, vec_available, category, rows>>
    /\ UNCHANGED fusionVars
    /\ UNCHANGED <<raceVars, script>>
    /\ UNCHANGED connectorVars

\* if embedding: the sqlite-vec query, which has no category clause.  It
\* raises on a connection that has not loaded the extension (no such module:
\* vec0), and may raise on one that has; nothing in search catches it.
SqliteVector ==
    /\ backend = "sqlite"
    /\ pc = "vector"
    /\ issued' = Issue("vector")
    /\ \/ /\ conn["ext"]
          /\ vector_results' \in LegLists(None, MaxVec)
          /\ pc' = "fuse"
          /\ UNCHANGED <<conn, faults>>
       \/ /\ faults' = Fault("vector", IF conn["ext"] THEN "unreachable" ELSE "capability")
          /\ pc' = "raised"
          /\ conn' = Closed(conn, TRUE)
          /\ UNCHANGED vector_results
    /\ UNCHANGED <<fts_results, n, scores, results, outcome, backend,
                   vec_available, category, embedding, rows>>
    /\ UNCHANGED fusionVars
    /\ UNCHANGED <<raceVars, script>>
    /\ UNCHANGED connectorVars

\* return self._rrf(fts_results, vector_results, n), then conn.close().
SqliteFuse ==
    /\ backend = "sqlite"
    /\ pc = "fuse"
    /\ RunRrf
    /\ pc' = IF outcome' = "ok" THEN "returned" ELSE "raised"
    /\ conn' = Closed(conn, outcome' = "raise")
    /\ UNCHANGED <<fts_results, vector_results, n, backend, vec_available,
                   category, embedding, rows, faults, issued>>
    /\ UNCHANGED fusionVars
    /\ UNCHANGED <<raceVars, script>>
    /\ UNCHANGED connectorVars

\* ------------------------------------------------ PostgresBackend.search

\* The records the where_active clause lets through (not superseded, not
\* expired): record 3 is superseded.
Active == Ids \ {3}

\* What a leg's query returns from a reachable server: rows of distinct ids
\* that are active and within the category, at most limit of them.
ActiveLegLists(cat, limit) ==
    {[j \in DOMAIN s |-> Row(s[j])] :
        s \in UniqueSeqsUpTo(InCategory(cat) \cap Active, limit)}

\* _run_psql(cmd, timeout): the runs of psql the environment can produce.
\* A server that answers gives exit code 0 and the JSON array on stdout
\* (SQL null for no rows); a refused connection gives exit code 2 and a
\* failing statement exit code 1, both with an empty stdout; a server that
\* does not answer within the timeout makes subprocess.run raise
\* TimeoutExpired, a missing psql binary FileNotFoundError.
PsqlRuns(cause, lists) ==
    CASE cause = "ok" ->
            {[exc |-> None, returncode |-> 0,
              stdout |-> IF l = <<>> THEN [kind |-> "null"]
                         ELSE [kind |-> "json", value |-> l]] : l \in lists}
      [] cause = "unreachable" ->
            {[exc |-> None, returncode |-> 2, stdout |-> [kind |-> "empty"]],
             [exc |-> "TimeoutExpired"]}
      [] cause = "no_binary" ->
            {[exc |-> "FileNotFoundError"]}
      [] OTHER ->
            {[exc |-> None, returncode |-> 1, stdout |-> [kind |-> "empty"]]}

\* _sql(query) raises what subprocess.run raises.
SqlRaises(run) == run["exc"] # None

\* _sql(query): json.loads(raw) if raw and raw != "null" else [].  The exit
\* code is not read.
Sql(run) ==
    IF run["stdout"]["kind"] = "json" THEN run["stdout"]["value"] ELSE <<>>

\* search(query, n, category): the arguments and the clauses built from them.
PostgresSearch ==
    /\ backend = "postgres"
    /\ pc = "idle"
    /\ \E m \in 0..MaxN, cat \in {None, "contacts"} : Enter(m, cat)
    /\ pc' = FirstStage
    /\ UNCHANGED <<backend, vec_available, conn, rows, faults, issued>>
    /\ UNCHANGED fusionVars
    /\ UNCHANGED <<raceVars, script>>
    /\ UNCHANGED connectorVars

\* fts_results = self._sql(...): the FTS leg.
PostgresFts ==
    /\ backend = "postgres"
    /\ pc = "fts"
    /\ issued' = Issue("lexical")
    /\ \E cause \in {"ok", "unreachable", "index", "no_binary"} :
       \E run \in PsqlRuns(cause, ActiveLegLists(category, MaxFts)) :
          /\ faults' = IF cause = "ok" THEN faults ELSE Fault("lexical", cause)
          /\ IF SqlRaises(run)
             THEN /\ pc' = "raised"
                  /\ UNCHANGED fts_results
             ELSE /\ pc' = "embed"
                  /\ fts_results' = Sql(run)
    /\ UNCHANGED <<vector_results, n, scores, results, outcome, backend,
                   vec_available, conn, category, embedding, rows>>
    /\ UNCHANGED fusionVars
    /\ UNCHANGED <<raceVars, script>>
    /\ UNCHANGED connectorVars

\* vector_results = []; embedding = self._embed(query)
PostgresEmbed ==
    /\ backend = "postgres"
    /\ pc = "embed"
    /\ issued' = Issue("embed")
    /\ \E response \in EmbedResponses :
       \E e \in {Embed(response)} :
          /\ faults' = IF response = "vector" THEN faults
                       ELSE Fault("embed", response)
          /\ IF e = "raise"
             THEN /\ pc' = "raised"
                  /\ UNCHANGED embedding
             ELSE /\ embedding' = e
                  /\ pc' = IF e = None THEN "fuse" ELSE "vector"
    /\ UNCHANGED <<fts_results, vector_results, n, scores, results, outcome,
                   backend, vec_available, conn, category, rows>>
    /\ UNCHANGED fusionVars
    /\ UNCHANGED <<raceVars, script>>
    /\ UNCHANGED connectorVars

\* if embedding: vector_results = self._sql(...): the vector leg, with the
\* clauses of the FTS leg.
PostgresVector ==
    /\ backend = "postgres"
    /\ pc = "vector"
    /\ issued' = Issue("vector")
    /\ \E cause \in {"ok", "unreachable", "capability"} :
       \E run \in PsqlRuns(cause, ActiveLegLists(category, MaxVec)) :
          /\ faults' = IF cause = "ok" THEN faults ELSE Fault("vector", cause)
          /\ IF SqlRaises(run)
             THEN /\ pc' = "raised"
                  /\ UNCHANGED vector_results
             ELSE /\ pc' = "fuse"
                  /\ vector_results' = Sql(run)
    /\ UNCHANGED <<fts_results, n, scores, results, outcome, backend,
                   vec_available, conn, category, embedding, rows>>
    /\ UNCHANGED fusionVars
    /\ UNCHANGED <<raceVars, script>>
    /\ UNCHANGED connectorVars

\* return self._rrf(fts_results, vector_results, n)
PostgresFuse ==
    /\ backend = "postgres"
    /\ pc = "fuse"
    /\ RunRrf
    /\ pc' = IF outcome' = "ok" THEN "returned" ELSE "raised"
    /\ UNCHANGED <<fts_results, vector_results, n, backend, vec_available,
                   conn, category, embedding, rows, faults, issued>>
    /\ UNCHANGED fusionVars
    /\ UNCHANGED <<raceVars, script>>
    /\ UNCHANGED connectorVars

\* -------------------------------------------------- MySQLBackend.search

\* One record of MySQL's output: the row's own score, rounded.
ShapeRow(row) ==
    [id      |-> Get(row, "id", 0),
     score   |-> Round6(Get(row, "score", 0), NativeDen),
     title   |-> Get(row, "title", ""),
     summary |-> Get(row, "summary", ""),
     cat     |-> Get(row, "cat", ""),
     src     |-> Get(row, "src", ""),
     content |-> Get(row, "c", "")]

\* search(query, n, category): rows = self._query(sql, params), the FULLTEXT
\* query; any exception (the server cannot be reached, the FULLTEXT index is
\* missing, the query is malformed) sends the call to the LIKE fallback.
MysqlQuery ==
    /\ backend = "mysql"
    /\ pc = "idle"
    /\ \E m \in 0..MaxN, cat \in {None, "contacts"} :
          /\ Enter(m, cat)
          /\ \/ /\ rows' \in FulltextLists(cat, Min(m, MaxFts))
                /\ pc' = "shape"
                /\ conn' = Closed(Opened(FALSE), FALSE)
                /\ UNCHANGED faults
             \/ /\ \E cause \in {"unreachable", "index"} :
                      /\ faults' = Fault("lexical", cause)
                      /\ conn' = IF cause = "unreachable" THEN conn
                                 ELSE Closed(Opened(FALSE), TRUE)
                /\ rows' = <<>>
                /\ pc' = "like"
    /\ issued' = Issue("lexical")
    /\ UNCHANGED <<backend, vec_available>>
    /\ UNCHANGED fusionVars
    /\ UNCHANGED <<raceVars, script>>
    /\ UNCHANGED connectorVars

\* rows = self._like_fallback(query, n, category, content_field): a second
\* _query, whose exception leaves search.  A server that could not be
\* reached for the first query cannot be reached for this one.
MysqlLikeFallback ==
    /\ backend = "mysql"
    /\ pc = "like"
    /\ issued' = Issue("like")
    /\ \/ /\ <<"lexical", "unreachable">> \notin faults
          /\ rows' \in LikeLists(category, Min(n, MaxFts))
          /\ pc' = "shape"
          /\ conn' = Closed(Opened(FALSE), FALSE)
          /\ UNCHANGED faults
       \/ /\ faults' = Fault("lexical", "unreachable")
          /\ pc' = "raised"
          /\ UNCHANGED <<rows, conn>>
    /\ UNCHANGED <<fts_results, vector_results, n, scores, results, outcome,
                   backend, vec_available, category, embedding>>
    /\ UNCHANGED fusionVars
    /\ UNCHANGED <<raceVars, script>>
    /\ UNCHANGED connectorVars

\* The loop that converts the rows to the standard format.
MysqlShape ==
    /\ backend = "mysql"
    /\ pc = "shape"
    /\ results' = [j \in DOMAIN rows |-> ShapeRow(rows[j])]
    /\ outcome' = "ok"
    /\ pc' = "returned"
    /\ UNCHANGED <<fts_results, vector_results, n, scores, backend,
                   vec_available, conn, category, embedding, rows, faults,
                   issued>>
    /\ UNCHANGED fusionVars
    /\ UNCHANGED <<raceVars, script>>
    /\ UNCHANGED connectorVars

\* ---------------------------------------------------- a backend session

\* The call is over: the caller has the result or the exception, and the
\* locals of the call, the score map among them, are gone.  The instance
\* keeps _vec_available, and the caller may call again.
Return ==
    /\ pc \in {"returned", "raised", "started"}
    /\ pc' = "idle"
    /\ n' = 0
    /\ category' = None
    /\ fts_results' = <<>>
    /\ vector_results' = <<>>
    /\ scores' = <<>>
    /\ results' = <<>>
    /\ outcome' = "none"
    /\ embedding' = None
    /\ rows' = <<>>
    /\ faults' = {}
    /\ issued' = [NoneIssued EXCEPT !["probe"] = issued["probe"]]
    /\ UNCHANGED <<backend, vec_available, conn>>
    /\ UNCHANGED fusionVars
    /\ UNCHANGED <<raceVars, script>>
    /\ UNCHANGED connectorVars

\* A constructed backend on which nothing has been called yet.
InitSearch ==
    /\ backend \in {"sqlite", "mysql", "postgres"}
    /\ pc = "idle"
    /\ vec_available = None
    /\ conn = NoConn
    /\ category = None
    /\ embedding = None
    /\ rows = <<>>
    /\ faults = {}
    /\ instance = NoInstance
    /\ reply = NoReply
    /\ issued = NoneIssued
    /\ threads = NoThreads
    /\ writes = <<>>
    /\ script = NoScript
    /\ fts_results = <<>>
    /\ vector_results = <<>>
    /\ n = 0
    /\ scores = <<>>
    /\ results = <<>>
    /\ outcome = "none"
    /\ calls = 0
    /\ prev_results = <<>>
    /\ given = <<>>

NextSearch ==
    \/ SqliteConnect
    \/ SqliteStartup
    \/ SqliteStartupRead
    \/ SqliteFts
    \/ SqliteEmbed
    \/ SqliteVector
    \/ SqliteFuse
    \/ PostgresSearch
    \/ PostgresFts
    \/ PostgresEmbed
    \/ PostgresVector
    \/ PostgresFuse
    \/ MysqlQuery
    \/ MysqlLikeFallback
    \/ MysqlShape
    \/ Return

SpecSearch == InitSearch /\ [][NextSearch]_vars

\* ------------------------------------- concurrent callers of one instance

\* The other variables of the module, which the concurrent callers leave
\* alone.
sessionVars ==
    <<fts_results, vector_results, n, scores, results, outcome, backend, pc,
      conn, category, embedding, rows, faults, issued, script>>

\* Thread t moves to the record now.
Moves(t, now) == threads' = [threads EXCEPT ![t] = now]

\* search in thread t: _connect() opens the thread's own connection and
\* reads self._vec_available; the extension is to be loaded if the value
\* read is None.
RaceConnect ==
    \E t \in Threads :
       /\ threads[t]["pc"] = "idle"
       /\ Moves(t, [threads[t] EXCEPT
                       !["pc"] = IF ProbeNeeded(vec_available) THEN "load" ELSE "fts"])
       /\ UNCHANGED <<vec_available, writes>>
       /\ UNCHANGED sessionVars
       /\ UNCHANGED fusionVars
       /\ UNCHANGED connectorVars

\* conn.enable_load_extension(True); conn.load_extension("vec0"), on the
\* thread's connection: the call returns or raises, and the assignment to
\* self._vec_available is the thread's next step.
RaceLoad ==
    \E t \in Threads :
       /\ threads[t]["pc"] = "load"
       /\ \E o \in ProbeOutcomes :
             Moves(t, [pc |-> "assign",
                       loaded |-> LoadExtension(o) = "True",
                       ext |-> o = "loaded"])
       /\ UNCHANGED <<vec_available, writes>>
       /\ UNCHANGED sessionVars
       /\ UNCHANGED fusionVars
       /\ UNCHANGED connectorVars

\* self._vec_available = True in the try block, or = False in the handler:
\* a plain assignment, whatever the attribute holds by now.
RaceAssign ==
    \E t \in Threads :
       /\ threads[t]["pc"] = "assign"
       /\ vec_available' = IF threads[t]["loaded"] THEN "True" ELSE "False"
       /\ writes' = Append(writes, vec_available')
       /\ Moves(t, [threads[t] EXCEPT !["pc"] = "fts"])
       /\ UNCHANGED sessionVars
       /\ UNCHANGED fusionVars
       /\ UNCHANGED connectorVars

\* The lexical query of the thread's call, then "if self._vec_available:"
\* with the value the attribute holds at that moment (the embedding is
\* taken as obtained).
RaceFts ==
    \E t \in Threads :
       /\ threads[t]["pc"] = "fts"
       /\ Moves(t, [threads[t] EXCEPT
                       !["pc"] = IF VectorLegEnabled(vec_available)
                                 THEN "vector" ELSE "done"])
       /\ UNCHANGED <<vec_available, writes>>
       /\ UNCHANGED sessionVars
       /\ UNCHANGED fusionVars
       /\ UNCHANGED connectorVars

\* The vector query on the thread's connection, which returns rows or
\* raises, and conn.close().
RaceVector ==
    \E t \in Threads :
       /\ threads[t]["pc"] = "vector"
       /\ Moves(t, [threads[t] EXCEPT
                       !["pc"] = IF threads[t]["ext"] THEN "done" ELSE "raised"])
       /\ UNCHANGED <<vec_available, writes>>
       /\ UNCHANGED sessionVars
       /\ UNCHANGED fusionVars
       /\ UNCHANGED connectorVars

\* A new SQLiteBackend shared by the threads, none of which has called yet.
InitRace ==
    /\ backend = "sqlite"
    /\ pc = "threads"
    /\ vec_available = None
    /\ threads = NoThreads
    /\ writes = <<>>
    /\ conn = NoConn
    /\ category = None
    /\ embedding = None
    /\ rows = <<>>
    /\ faults = {}
    /\ issued = NoneIssued
    /\ script = NoScript
    /\ instance = NoInstance
    /\ reply = NoReply
    /\ fts_results = <<>>
    /\ vector_results = <<>>
    /\ n = 0
    /\ scores = <<>>
    /\ results = <<>>
    /\ outcome = "none"
    /\ calls = 0
    /\ prev_results = <<>>
    /\ given = <<>>

NextRace ==
    \/ RaceConnect
    \/ RaceLoad
    \/ RaceAssign
    \/ RaceFts
    \/ RaceVector

SpecRace == InitRace /\ [][NextRace]_vars

\* ------------------------------------------- the re-embedding scripts
\* reembed.py embeds the fetched rows in batches of BATCH_SIZE and
\* reembed_fixup.py one row at a time; both run with autocommit off, commit
\* after the UPDATEs of a batch and roll back in the except clause.  The
\* fetched rows are numbered 1..total in the order of the SELECT.  script's
\* table is the set of rows whose new embedding is committed, pending the
\* set of rows updated in the open transaction.

\* The rows of one pass of the loop: BATCH_SIZE in reembed.py, one in
\* reembed_fixup.py.
BatchSize(program) == IF program = "fixup" THEN 1 ELSE BATCH_SIZE

\* rows[i:i + BATCH_SIZE], as row numbers.
Batch(program, i, total) == (i + 1)..Min(i + BatchSize(program), total)

\* Mutant: a connection with autocommit on, every UPDATE committed at once.
ExecuteAutocommit(table, pending, rid) ==
    [table |-> table \cup {rid}, pending |-> pending]

\* cursor.execute("UPDATE memories SET embedding = %s WHERE id = %s") with
\* conn.autocommit = False: the row is changed in the open transaction only.
Execute(table, pending, rid) ==
    [table |-> table, pending |-> pending \cup {rid}]

\* The script's step, which touches nothing else.
ScriptStep(now) ==
    /\ script' = now
    /\ UNCHANGED <<fts_results, vector_results, n, scores, results, outcome,
                   backend, pc, vec_available, conn, category, embedding, rows,
                   faults, issued>>
    /\ UNCHANGED fusionVars
    /\ UNCHANGED raceVars
    /\ UNCHANGED connectorVars

\* main(): connect, fetch the rows, total = len(rows), updated = errors = 0.
ScriptFetch ==
    /\ script["pc"] = "start"
    /\ \E program \in {"reembed", "fixup"}, total \in 0..MaxRows :
          ScriptStep([NoScript EXCEPT !["program"] = program,
                                      !["total"] = total,
                                      !["pc"] = "loop"])

\* The head of the for loop and client.embeddings.create(...) for the batch:
\* the API answers with one embedding per text, or the call raises.
ScriptCreate ==
    /\ script["pc"] = "loop"
    /\ script["i"] < script["total"]
    /\ \E answered \in BOOLEAN :
          ScriptStep([script EXCEPT !["pc"] = IF answered THEN "update" ELSE "except",
                                    !["k"] = script["i"] + 1])

\* One UPDATE of the batch, for row k: it changes the row in the open
\* transaction, or it raises.  After the last row comes the commit.
ScriptExecute ==
    /\ script["pc"] = "update"
    /\ \E executed \in BOOLEAN :
       \E e \in {Execute(script["table"], script["pending"], script["k"])} :
          IF executed
          THEN ScriptStep([script EXCEPT
                  !["table"] = e["table"],
                  !["pending"] = e["pending"],
                  !["k"] = script["k"] + 1,
                  !["pc"] = IF script["k"] + 1 \in
                                  Batch(script["program"], script["i"], script["total"])
                            THEN "update" ELSE "commit"])
          ELSE ScriptStep([script EXCEPT !["pc"] = "except"])

\* conn.commit(): the open transaction becomes durable as a whole and
\* updated grows by the length of the batch, or commit raises and nothing of
\* the transaction is kept.
ScriptCommit ==
    /\ script["pc"] = "commit"
    /\ \E committed \in BOOLEAN :
          IF committed
          THEN ScriptStep([script EXCEPT
                  !["table"] = script["table"] \cup script["pending"],
                  !["pending"] = {},
                  !["updated"] = script["updated"] + Cardinality(
                        Batch(script["program"], script["i"], script["total"])),
                  !["i"] = script["i"] + BatchSize(script["program"]),
                  !["pc"] = "loop"])
          ELSE ScriptStep([script EXCEPT !["pc"] = "except"])

\* except Exception: conn.rollback(); errors += len(batch).  On a lost
\* connection rollback raises too and the script ends with the traceback;
\* the server drops the open transaction.
ScriptRollback ==
    /\ script["pc"] = "except"
    /\ \E rolled_back \in BOOLEAN :
          IF rolled_back
          THEN ScriptStep([script EXCEPT
                  !["pending"] = {},
                  !["errors"] = script["errors"] + Cardinality(
                        Batch(script["program"], script["i"], script["total"])),
                  !["i"] = script["i"] + BatchSize(script["program"]),
                  !["pc"] = "loop"])
          ELSE ScriptStep([script EXCEPT !["pending"] = {}, !["pc"] = "crashed"])

\* The loop is exhausted: conn.close() and the final print.
ScriptDone ==
    /\ script["pc"] = "loop"
    /\ script["i"] >= script["total"]
    /\ ScriptStep([script EXCEPT !["pc"] = "done"])

\* The script has been started and has fetched nothing yet.
InitReembed ==
    /\ script = NoScript
    /\ backend = "postgres"
    /\ pc = "script"
    /\ vec_available = None
    /\ threads = NoThreads
    /\ writes = <<>>
    /\ conn = NoConn
    /\ category = None
    /\ embedding = None
    /\ rows = <<>>
    /\ faults = {}
    /\ issued = NoneIssued
    /\ instance = NoInstance
    /\ reply = NoReply
    /\ fts_results = <<>>
    /\ vector_results = <<>>
    /\ n = 0
    /\ scores = <<>>
    /\ results = <<>>
    /\ outcome = "none"
    /\ calls = 0
    /\ prev_results = <<>>
    /\ given = <<>>

NextReembed ==
    \/ ScriptFetch
    \/ ScriptCreate
    \/ ScriptExecute
    \/ ScriptCommit
    \/ ScriptRollback
    \/ ScriptDone

SpecReembed == InitReembed /\ [][NextReembed]_vars

\* ------------------------------------------------------------ construction

\* Python's "not x" of a constructor argument: None and "" are false.
Falsy(x) == x = None \/ x = ""

\* The values a caller passes for a connection parameter.
ArgValues == {None, "", "value"}

\* The connection strings of the MySQL connector: None, "", and URLs with
\* and without a user and a database.
MysqlUrls == {"mysql://u@h/db", "mysql://h/db", "mysql://u@h"}

\* urlparse(url).username
UrlUsername(url) == IF url \in {"mysql://u@h/db", "mysql://u@h"} THEN "u" ELSE None

\* urlparse(url).path
UrlPath(url) == IF url \in {"mysql://u@h/db", "mysql://h/db"} THEN "/db" ELSE ""

\* path.lstrip("/")
Lstrip(path) == IF path = "/db" THEN "db" ELSE ""

\* __init__ of PostgresBackend and of PostgresConnector raises ValueError.
PostgresInitRaises(database, connection_string) ==
    Falsy(connection_string) /\ Falsy(database)

\* MySQLBackend.__init__ raises ValueError.
MysqlInitRaises(database, user) == Falsy(database) \/ Falsy(user)

\* MySQLConnector._parse_url(url): the fields it sets.
ParseUrl(url) ==
    [database |-> Lstrip(UrlPath(url)), user |-> UrlUsername(url),
     connection_string |-> url]

\* SQLiteConnector.__init__ raises ValueError.
SqliteConnectorInitRaises(db_path) == Falsy(db_path)

\* The outcome of a constructor: the instance with its fields, or the
\* exception and no instance.
Constructed(class, raises, fields) ==
    /\ IF raises
       THEN /\ pc' = "raised"
            /\ UNCHANGED instance
       ELSE /\ pc' = "constructed"
            /\ instance' = [class |-> class] @@ fields
    /\ UNCHANGED <<fts_results, vector_results, n, scores, results, outcome,
                   backend, vec_available, conn, category, embedding, rows,
                   faults, reply, issued>>
    /\ UNCHANGED fusionVars
    /\ UNCHANGED <<raceVars, script>>

PostgresBackendInit ==
    /\ pc = "new"
    /\ \E database \in ArgValues, connection_string \in ArgValues :
           Constructed("PostgresBackend",
                       PostgresInitRaises(database, connection_string),
                       [database |-> database, connection_string |-> connection_string])

MysqlBackendInit ==
    /\ pc = "new"
    /\ \E database \in ArgValues, user \in ArgValues :
           Constructed("MySQLBackend", MysqlInitRaises(database, user),
                       [database |-> database, user |-> user])

\* SQLiteBackend.__init__ stores db_path (default "shadow.db") as given.
SqliteBackendInit ==
    /\ pc = "new"
    /\ \E db_path \in {None, "", "shadow.db"} :
           Constructed("SQLiteBackend", FALSE, [db_path |-> db_path])

PostgresConnectorInit ==
    /\ pc = "new"
    /\ \E database \in ArgValues, connection_string \in ArgValues :
           Constructed("PostgresConnector",
                       PostgresInitRaises(database, connection_string),
                       [database |-> database, connection_string |-> connection_string])

\* MySQLConnector.__init__: the fields of the URL when there is one, the
\* arguments otherwise.
MysqlConnectorInit ==
    /\ pc = "new"
    /\ \E database \in ArgValues, user \in ArgValues,
          connection_string \in {None, ""} \cup MysqlUrls :
           IF ~Falsy(connection_string)
           THEN Constructed("MySQLConnector",
                            MysqlInitRaises(ParseUrl(connection_string)["database"],
                                            ParseUrl(connection_string)["user"]),
                            ParseUrl(connection_string))
           ELSE Constructed("MySQLConnector", MysqlInitRaises(database, user),
                            [database |-> database, user |-> user,
                             connection_string |-> connection_string])

SqliteConnectorInit ==
    /\ pc = "new"
    /\ \E db_path \in {None, "", "shadow.db"} :
           Constructed("SQLiteConnector", SqliteConnectorInitRaises(db_path),
                       [db_path |-> db_path])

\* ------------------------------------------------------------- connectors

\* What happens to a statement sent through the client program: it yields
\* rows, or no rows, or fails as a statement, or the connection is refused,
\* or nothing answers within the timeout, or the client binary is missing.
QueryCauses == {"rows", "no_rows", "statement", "refused", "timeout", "no_binary"}

\* A CompletedProcess: the exit code and the captured stdout.
Completed(returncode, kind, value) ==
    [exc |-> None, returncode |-> returncode,
     stdout |-> [kind |-> kind, value |-> value]]

\* The rows of a statement as JSON (psql's json_agg, sqlite3 -json) and as a
\* tab- or comma-separated table with a header line.
JsonRows == {<<[id |-> 1]>>, <<[id |-> 1], [id |-> 2]>>}

TableLines == {<< <<"id">>, <<"1">> >>, << <<"id">>, <<"1">>, <<"2">> >>}

\* _run(cmd, timeout): subprocess.run of the client program.  A statement
\* that yields no rows or fails, and a refused connection, leave stdout empty
\* (the message goes to stderr); a timeout and a missing binary make
\* subprocess.run raise.
ClientRuns(class, cause) ==
    CASE cause = "rows" ->
            IF class = "MySQLConnector"
            THEN {Completed(0, "table", t) : t \in TableLines}
            ELSE {Completed(0, "json", r) : r \in JsonRows}
      [] cause = "no_rows" ->
            IF class = "PostgresConnector"
            THEN {Completed(0, "empty", <<>>), Completed(0, "null", <<>>)}
            ELSE {Completed(0, "empty", <<>>)}
      [] cause = "statement" ->
            {Completed(1, "empty", <<>>)}
      [] cause = "refused" ->
            {Completed(IF class = "PostgresConnector" THEN 2 ELSE 1, "empty", <<>>)}
      [] cause = "timeout" ->
            {[exc |-> "TimeoutExpired"]}
      [] OTHER ->
            {[exc |-> "FileNotFoundError"]}

\* dict(zip(headers, vals))
Zip(headers, vals) ==
    [h \in {headers[i] : i \in 1..Min(Len(headers), Len(vals))} |->
        vals[CHOOSE i \in 1..Len(headers) : headers[i] = h]]

\* stdout.strip().split("\n"): the lines; one empty line for an empty stdout.
Lines(stdout) == IF stdout["kind"] = "table" THEN stdout["value"] ELSE << <<"">> >>

\* The header line and the rows after it, as dicts; [] with fewer than two
\* lines.
ParseTable(lines) ==
    IF Len(lines) < 2 THEN <<>>
    ELSE [j \in 1..(Len(lines) - 1) |-> Zip(lines[1], lines[j + 1])]

\* query(sql) raises what subprocess.run raises; nothing in it raises on a
\* refused connection.
QueryRaises(run) == run["exc"] # None

\* PostgresConnector.query: json.loads(raw) if raw and raw != "null" else []
PostgresQuery(run) ==
    IF run["stdout"]["kind"] = "json" THEN run["stdout"]["value"] ELSE <<>>

\* MySQLConnector.query: the header and the rows of the tab-separated output.
MysqlQueryRows(run) == ParseTable(Lines(run["stdout"]))

\* SQLiteConnector.query: [] for an empty stdout, else json.loads(raw).  The
\* stdout of sqlite3 -json is a JSON array or empty (an sqlite3 without -json
\* prints its error to stderr), so json.loads does not fail and the CSV
\* fallback is not taken.
SqliteQuery(run) ==
    IF run["stdout"]["kind"] = "json" THEN run["stdout"]["value"] ELSE <<>>

\* A call of query on a connector: the run of the client and what query
\* makes of it.
Queried(cause, run, result) ==
    /\ pc' = "queried"
    /\ reply' = [cause |-> cause, run |-> run]
    /\ IF QueryRaises(run)
       THEN /\ outcome' = "raise"
            /\ UNCHANGED results
       ELSE /\ outcome' = "ok"
            /\ results' = result
    /\ UNCHANGED <<fts_results, vector_results, n, scores, backend,
                   vec_available, conn, category, embedding, rows, faults,
                   instance, issued>>
    /\ UNCHANGED fusionVars
    /\ UNCHANGED <<raceVars, script>>

PostgresConnectorQuery ==
    /\ instance["class"] = "PostgresConnector"
    /\ pc = "constructed"
    /\ \E cause \in QueryCauses :
       \E run \in ClientRuns("PostgresConnector", cause) :
           Queried(cause, run,
                   IF QueryRaises(run) THEN <<>> ELSE PostgresQuery(run))

MysqlConnectorQuery ==
    /\ instance["class"] = "MySQLConnector"
    /\ pc = "constructed"
    /\ \E cause \in QueryCauses :
       \E run \in ClientRuns("MySQLConnector", cause) :
           Queried(cause, run,
                   IF QueryRaises(run) THEN <<>> ELSE MysqlQueryRows(run))

SqliteConnectorQuery ==
    /\ instance["class"] = "SQLiteConnector"
    /\ pc = "constructed"
    /\ \E cause \in QueryCauses :
       \E run \in ClientRuns("SQLiteConnector", cause) :
           Queried(cause, run,
                   IF QueryRaises(run) THEN <<>> ELSE SqliteQuery(run))

\* What happens to the probe "SELECT 1;": the database answers 1, or the
\* client prints something else, or prints 1 and exits with an error, or the
\* connection is refused, or nothing answers, or the client binary is
\* missing, or (SQLite) the database file does not exist.
ProbeCauses == {"answered", "other_output", "answered_failed", "refused",
                "timeout", "no_binary", "no_file"}

ProbeFailures == {"refused", "timeout", "no_binary", "no_file"}

\* _run(..., "SELECT 1;", timeout=3)
ProbeRuns(cause) ==
    CASE cause = "answered" -> Completed(0, "text", <<"1">>)
      [] cause = "other_output" -> Completed(0, "text", <<"0">>)
      [] cause = "answered_failed" -> Completed(1, "text", <<"1">>)
      [] cause = "timeout" -> [exc |-> "TimeoutExpired"]
      [] cause = "no_binary" -> [exc |-> "FileNotFoundError"]
      [] OTHER -> Completed(1, "empty", <<>>)

\* Mutant: ping without its try/except.
PingUncaught(exists, run) ==
    IF ~exists THEN "False"
    ELSE IF run["exc"] # None THEN "raise"
    ELSE IF /\ run["returncode"] = 0
            /\ run["stdout"]["kind"] = "text"
            /\ run["stdout"]["value"] = <<"1">>
         THEN "True" ELSE "False"

\* ping(): False when the file does not exist (SQLite) and on any exception,
\* else r.returncode == 0 and r.stdout.strip() == "1".
Ping(exists, run) ==
    IF ~exists THEN "False"
    ELSE IF run["exc"] # None THEN "False"
    ELSE IF /\ run["returncode"] = 0
            /\ run["stdout"]["kind"] = "text"
            /\ run["stdout"]["value"] = <<"1">>
         THEN "True" ELSE "False"

\* A call of ping on a connector.
Pinged(cause) ==
    /\ pc' = "pinged"
    /\ reply' = [cause |-> cause, run |-> ProbeRuns(cause)]
    /\ outcome' = Ping(cause # "no_file", ProbeRuns(cause))
    /\ UNCHANGED <<fts_results, vector_results, n, scores, results, backend,
                   vec_available, conn, category, embedding, rows, faults,
                   instance, issued>>
    /\ UNCHANGED fusionVars
    /\ UNCHANGED <<raceVars, script>>

PostgresConnectorPing ==
    /\ instance["class"] = "PostgresConnector"
    /\ pc = "constructed"
    /\ \E cause \in ProbeCauses \ {"no_file"} : Pinged(cause)

MysqlConnectorPing ==
    /\ instance["class"] = "MySQLConnector"
    /\ pc = "constructed"
    /\ \E cause \in ProbeCauses \ {"no_file"} : Pinged(cause)

SqliteConnectorPing ==
    /\ instance["class"] = "SQLiteConnector"
    /\ pc = "constructed"
    /\ \E cause \in ProbeCauses : Pinged(cause)

\* The call is over; the connector can be called again.
ConnectorReturn ==
    /\ pc \in {"queried", "pinged"}
    /\ pc' = "constructed"
    /\ results' = <<>>
    /\ outcome' = "none"
    /\ reply' = NoReply
    /\ UNCHANGED <<fts_results, vector_results, n, scores, backend,
                   vec_available, conn, category, embedding, rows, faults,
                   instance, issued>>
    /\ UNCHANGED fusionVars
    /\ UNCHANGED <<raceVars, script>>

\* Nothing is constructed yet.
InitConnector ==
    /\ pc = "new"
    /\ instance = NoInstance
    /\ reply = NoReply
    /\ issued = NoneIssued
    /\ threads = NoThreads
    /\ writes = <<>>
    /\ script = NoScript
    /\ backend = None
    /\ vec_available = None
    /\ conn = NoConn
    /\ category = None
    /\ embedding = None
    /\ rows = <<>>
    /\ faults = {}
    /\ fts_results = <<>>
    /\ vector_results = <<>>
    /\ n = 0
    /\ scores = <<>>
    /\ results = <<>>
    /\ outcome = "none"
    /\ calls = 0
    /\ prev_results = <<>>
    /\ given = <<>>

NextConnector ==
    \/ PostgresBackendInit
    \/ MysqlBackendInit
    \/ SqliteBackendInit
    \/ PostgresConnectorInit
    \/ MysqlConnectorInit
    \/ SqliteConnectorInit
    \/ PostgresConnectorQuery
    \/ MysqlConnectorQuery
    \/ SqliteConnectorQuery
    \/ PostgresConnectorPing
    \/ MysqlConnectorPing
    \/ SqliteConnectorPing
    \/ ConnectorReturn

SpecConnector == InitConnector /\ [][NextConnector]_vars

\* ------------------------------------------------- vocabulary of the claims

\* The ids of a candidate list, in list order.
IdsOf(list) == [j \in DOMAIN list |-> list[j]["id"]]

\* The ids a list holds.
IdSet(list) == {list[j]["id"] : j \in DOMAIN list}

\* The 0-based ranks at which id occurs in list.
RanksOf(list, id) == {j - 1 : j \in {h \in DOMAIN list : list[h]["id"] = id}}

\* No id twice in the list (the leg contract).
UniqueIds(list) == \A i, j \in DOMAIN list : list[i]["id"] = list[j]["id"] => i = j

\* The only rank of id in a list that holds it once.
RankOf(list, id) == CHOOSE r \in RanksOf(list, id) : TRUE

\* The place of id's first appearance in the processing order: the lexical
\* list first, then the vector list.
FirstSeen(id) ==
    LET all == IdsOf(fts_results) \o IdsOf(vector_results)
    IN  CHOOSE j \in DOMAIN all : all[j] = id /\ \A h \in 1..(j - 1) : all[h] # id

\* The cumulative score of id in the score map, a numerator over Den.
Cumulative(id) == DictGet(scores, Str(id), 0)

Returned == calls >= 1 /\ outcome = "ok"

Million == 10 ^ Decimals

\* The scenario of the documentation: lexical = [A, B, C], vector = [B, D],
\* with A, B, C, D the records 1, 2, 3, 4.
Scenario ==
    /\ IdsOf(fts_results) = <<1, 2, 3>>
    /\ IdsOf(vector_results) = <<2, 4>>

\* ------------------------------------------------------------------ claims

\* C1: for all candidate lists and every requested n >= 0, the list fusion
\* returns has at most min(n, number of distinct ids of the two lists)
\* records, and none when n = 0.
C1_LengthBound ==
    Returned =>
        /\ Len(results) <= Min(n, Cardinality(IdSet(fts_results) \cup IdSet(vector_results)))
        /\ (n = 0 => results = <<>>)

\* C1 witness: n exceeds the number of distinct ids, an id is repeated, and
\* every distinct id is returned.
C1_Witness ==
    /\ Returned
    /\ Cardinality(IdSet(fts_results) \cup IdSet(vector_results)) = 2
    /\ Len(fts_results) + Len(vector_results) > 2
    /\ n = 3
    /\ Len(results) = 2

\* C2: the returned records are in non-increasing order of reported score.
C2_SortedByScore ==
    Returned =>
        \A i, j \in DOMAIN results : i < j => results[i]["score"] >= results[j]["score"]

\* C2 witness: three records returned, the vector list's first candidate
\* ahead of the lexical list's second.
C2_Witness ==
    /\ Returned
    /\ Len(results) = 3
    /\ results[1]["score"] > results[3]["score"]
    /\ \E i, j \in DOMAIN results :
          /\ i < j
          /\ results[i]["id"] \notin IdSet(fts_results)
          /\ results[j]["id"] \notin IdSet(vector_results)

\* C3 as stated: the reported score of an id that occurs once, in the lexical
\* list only, at rank r is exactly 1/(K+r+1), and that of an id that occurs
\* once in each list, at ranks r1 and r2, exactly 1/(K+r1+1) + 1/(K+r2+1).
C3_ReportedScoreIsExactSum ==
    Returned =>
        \A j \in DOMAIN results :
            LET id == results[j]["id"]
                s  == results[j]["score"]
                a  == K + RankOf(fts_results, id) + 1
                b  == K + RankOf(vector_results, id) + 1
            IN  /\ (Cardinality(RanksOf(fts_results, id)) = 1 /\ RanksOf(vector_results, id) = {})
                      => s * a = Million
                /\ (Cardinality(RanksOf(fts_results, id)) = 1 /\ Cardinality(RanksOf(vector_results, id)) = 1)
                      => s * a * b = Million * (a + b)

\* C3 amended: the cumulative score of such an id is exactly the sum of its
\* rank contributions, and its reported score is that sum rounded to six
\* decimals (within half a millionth of it).
C3_ScoreIsRoundedSum ==
    Returned =>
        \A j \in DOMAIN results :
            LET id == results[j]["id"]
                s  == results[j]["score"]
                a  == K + RankOf(fts_results, id) + 1
                b  == K + RankOf(vector_results, id) + 1
            IN  /\ (Cardinality(RanksOf(fts_results, id)) = 1 /\ RanksOf(vector_results, id) = {})
                      => /\ Cumulative(id) * a = Den
                         /\ 2 * Abs(s * a - Million) <= a
                /\ (Cardinality(RanksOf(fts_results, id)) = 1 /\ Cardinality(RanksOf(vector_results, id)) = 1)
                      => /\ Cumulative(id) * a * b = Den * (a + b)
                         /\ 2 * Abs(s * a * b - Million * (a + b)) <= a * b

\* C3 witness: one returned id of the lexical list only, at a rank past the
\* first, and one returned id of both lists.
C3_Witness ==
    /\ Returned
    /\ \E i, j \in DOMAIN results :
          /\ RanksOf(fts_results, results[i]["id"]) = {1}
          /\ RanksOf(vector_results, results[i]["id"]) = {}
          /\ Cardinality(RanksOf(fts_results, results[j]["id"])) = 1
          /\ Cardinality(RanksOf(vector_results, results[j]["id"])) = 1

\* C4: with an empty vector list and a lexical list of unique ids, the ids
\* returned are the first min(n, length) ids of the lexical list, in order.
C4_SingleLegKeepsOrder ==
    (Returned /\ vector_results = <<>> /\ UniqueIds(fts_results)) =>
        IdsOf(results) = SubSeq(IdsOf(fts_results), 1, Min(n, Len(fts_results)))

\* C4 witness: three lexical candidates, no vector candidate, two returned.
C4_Witness ==
    /\ Returned
    /\ vector_results = <<>>
    /\ UniqueIds(fts_results)
    /\ Len(fts_results) = 3
    /\ n = 2
    /\ Len(results) = 2

\* C5: in the scenario with n = 3, fusion returns exactly three records, with
\* the ids B, A, D in that order.
C5_ScenarioOrder ==
    (Returned /\ Scenario /\ n = 3) => IdsOf(results) = <<2, 1, 4>>

\* C5 witness: the scenario has run with n = 3.
C5_Witness ==
    /\ Returned
    /\ Scenario
    /\ n = 3
    /\ Len(results) = 3

\* C6 as stated: in the scenario the cumulative scores are A = 1/61,
\* B = 1/61 + 1/61 = 2/61, C = 1/63 and D = 1/62.
C6_ScenarioScoresAsStated ==
    (Returned /\ Scenario) =>
        /\ Cumulative(1) * 61 = Den
        /\ Cumulative(2) * 61 = 2 * Den
        /\ Cumulative(3) * 63 = Den
        /\ Cumulative(4) * 62 = Den

\* C6 amended: in the scenario the cumulative scores are A = 1/61,
\* B = 1/62 + 1/61 = 123/3782 (B is second in the lexical list and first in
\* the vector list), C = 1/63 and D = 1/62.
C6_ScenarioScores ==
    (Returned /\ Scenario) =>
        /\ Cumulative(1) * 61 = Den
        /\ Cumulative(2) * (61 * 62) = (61 + 62) * Den
        /\ Cumulative(3) * 63 = Den
        /\ Cumulative(4) * 62 = Den

\* C6 witness: the scenario has run and the score map holds the four ids.
C6_Witness ==
    /\ Returned
    /\ Scenario
    /\ Len(scores) = 4

\* The lexical candidates of a returned search call: fts_results on SQLite,
\* the rows of the query on MySQL.
Lexical == IF backend = "mysql" THEN rows ELSE fts_results

\* A search call has returned, on a backend without the vector leg, with two
\* lexical candidates X, Y and room for both (n >= 2).
LexicalOnlyPair ==
    /\ pc = "returned"
    /\ n >= 2
    /\ Len(Lexical) = 2
    /\ \/ backend = "sqlite" /\ vec_available = "False"
       \/ backend = "mysql"

\* C7 as stated: with the vector capability unavailable and the lexical
\* candidates [X, Y], search returns [X, Y] with the scores 1/61 and 1/62, on
\* SQLite without the extension and on MySQL.
C7_LexicalOnlyAsStated ==
    LexicalOnlyPair =>
        /\ IdsOf(results) = IdsOf(Lexical)
        /\ results[1]["score"] * 61 = Million
        /\ results[2]["score"] * 62 = Million

\* C7 amended: with the lexical candidates [X, Y] and n >= 2, SQLite without
\* the extension returns [X, Y] with the reported scores 0.016393 and
\* 0.016129 (1/61 and 1/62 rounded to six decimals); MySQL, which does no
\* fusion, returns [X, Y] with each row's own relevance score rounded to six
\* decimals.
C7_LexicalOnlySearch ==
    LexicalOnlyPair =>
        /\ IdsOf(results) = IdsOf(Lexical)
        /\ backend = "sqlite" =>
              /\ results[1]["score"] = 16393
              /\ results[2]["score"] = 16129
        /\ backend = "mysql" =>
              \A j \in 1..2 : 2 * Abs(results[j]["score"] * 10 - rows[j]["score"]) <= 10

\* C7 witness: SQLite, the probe found no extension, the FTS query returned
\* two rows, and search has returned two records.
C7_Witness ==
    /\ LexicalOnlyPair
    /\ backend = "sqlite"
    /\ vec_available = "False"
    /\ vector_results = <<>>
    /\ Len(results) = 2

\* C8: fusion never raises, and on two empty lists it returns the empty list.
C8_NeverFails ==
    /\ outcome # "raise"
    /\ (calls >= 1 /\ fts_results = <<>> /\ vector_results = <<>>)
          => (outcome = "ok" /\ results = <<>>)

\* C8 witness: fusion has run on two empty lists with n > 0.
C8_Witness ==
    /\ calls >= 1
    /\ fts_results = <<>>
    /\ vector_results = <<>>
    /\ n > 0
    /\ outcome = "ok"

\* C9: two returned ids of equal cumulative score are returned in the order
\* of their first appearance, the lexical list before the vector list.
C9_TieBreak ==
    Returned =>
        \A i, j \in DOMAIN results :
            (i < j /\ Cumulative(results[i]["id"]) = Cumulative(results[j]["id"]))
                => FirstSeen(results[i]["id"]) < FirstSeen(results[j]["id"])

\* C9 witness: a tie between an id of the lexical list only and an id of the
\* vector list only, both returned.
C9_Witness ==
    /\ Returned
    /\ \E i, j \in DOMAIN results :
          /\ i < j
          /\ Cumulative(results[i]["id"]) = Cumulative(results[j]["id"])
          /\ results[i]["id"] \notin IdSet(vector_results)
          /\ results[j]["id"] \notin IdSet(fts_results)

\* C10: a second run of fusion on the same lists, n and k returns what the
\* first run returned, and a run leaves the argument lists as they were given.
C10_Idempotent ==
    /\ (calls >= 2 /\ outcome = "ok") => results = prev_results
    /\ calls >= 1 => <<fts_results, vector_results>> = given

\* C10 witness: fusion has run twice on two non-empty lists that share an id
\* and returned records.
C10_Witness ==
    /\ calls >= 2
    /\ outcome = "ok"
    /\ IdSet(fts_results) \cap IdSet(vector_results) # {}
    /\ Len(results) >= 2

\* ------------------------------------------- search: failures and filters

\* The lexical leg of the call found the backend unreachable.
LexicalUnreachable == <<"lexical", "unreachable">> \in faults

\* The ranked lexical query of the call failed as a statement: the index is
\* missing or the query is malformed.
IndexUnavailable == <<"lexical", "index">> \in faults

\* The embedding request of the call failed.
EmbeddingFailed == \E r \in EmbedResponses \ {"vector"} : <<"embed", r>> \in faults

\* The vector leg's own query failed: no connectivity, or no vector
\* capability on the connection.
VectorQueryFailed == \E c \in {"unreachable", "capability"} : <<"vector", c>> \in faults

\* What search returns with the vector leg absent: the fusion of the lexical
\* list of the call with an empty list.
LexicalOnlyResult ==
    Results(Ranked(RrfScores(<<>>, fts_results, <<>>, K), n),
            RrfCache(fts_results, <<>>))

\* C11: when the backend is unreachable during the lexical leg, search
\* raises; it never returns a result list, on any backend.
C11_UnreachableIsFatal == LexicalUnreachable => pc # "returned"

\* C12: after a failed embedding request (timeout, service down, malformed
\* answer) search does not raise because of it, the vector list stays empty,
\* and what search returns is the fusion of the lexical list with an empty
\* list.
C12_EmbeddingFailureSwallowed ==
    EmbeddingFailed =>
        /\ pc \in {"fuse", "returned"}
        /\ vector_results = <<>>
        /\ pc = "returned" => (outcome = "ok" /\ results = LexicalOnlyResult)

\* C12 witness: a search whose embedding request timed out has returned two
\* records.
C12_Witness ==
    /\ pc = "returned"
    /\ <<"embed", "timeout">> \in faults
    /\ Len(fts_results) >= 2
    /\ Len(results) >= 2

\* C13: after a failure of the vector leg's own query search does not raise,
\* and returns the fusion of the lexical list with an empty list.
C13_VectorFailureSwallowed ==
    VectorQueryFailed =>
        /\ pc # "raised"
        /\ pc = "returned" => results = LexicalOnlyResult

\* The records search returned are rows of the unranked substring match: at
\* most n of them, each of the requested category, each with the nominal
\* score 1.0.
NominalScoreRows ==
    /\ Len(results) <= n
    /\ \A j \in DOMAIN results :
          /\ results[j]["score"] = Million
          /\ category # None => results[j]["cat"] = category

\* C14 as stated: on every backend, when the ranked lexical query fails
\* because the index is missing or the query is malformed, search does not
\* raise and returns rows of the substring match with one nominal score.
C14_FallbackAsStated ==
    (IndexUnavailable /\ ~LexicalUnreachable) =>
        /\ pc # "raised"
        /\ pc = "returned" => NominalScoreRows

\* C14 amended: on the MySQL backend, when the FULLTEXT query fails because
\* the index is missing or the query is malformed and the server is
\* reachable, search does not raise and returns the rows of the LIKE match
\* over the same category and with the same limit, each with the score 1.0.
C14_MysqlLikeFallback ==
    (backend = "mysql" /\ IndexUnavailable /\ ~LexicalUnreachable) =>
        /\ pc \in {"like", "shape", "returned"}
        /\ pc = "returned" => (outcome = "ok" /\ NominalScoreRows)

\* C14 witness: MySQL, the FULLTEXT query failed on the index, a category
\* was requested, and search has returned two rows of the LIKE match.
C14_Witness ==
    /\ backend = "mysql"
    /\ pc = "returned"
    /\ IndexUnavailable
    /\ category = "contacts"
    /\ Len(results) = 2

\* C15: in a search call that ran both legs with a category requested, every
\* returned record is of that category.
C15_SameCategoryFilter ==
    (pc = "returned" /\ embedding = "vector" /\ category # None) =>
        \A j \in DOMAIN results : results[j]["cat"] = category

\* C16: in every record search returns, title, summary and source are
\* strings, never null.
C16_OptionalFieldsAreStrings ==
    pc = "returned" =>
        \A j \in DOMAIN results :
            /\ results[j]["title"] # None
            /\ results[j]["summary"] # None
            /\ results[j]["src"] # None

\* A connection of the instance is open.
ConnectionOpen == backend = "sqlite" /\ pc \in {"startup", "fts", "embed", "vector", "fuse"}

\* C20: over startup and search calls on one instance the capability state
\* changes only from unprobed to available or unavailable, so at most once,
\* and it is no longer unprobed once a connection has been opened.
C20_ProbedOnce ==
    [][/\ vec_available' # vec_available =>
             (vec_available = None /\ vec_available' \in {"True", "False"})
       /\ ConnectionOpen' => vec_available' # None]_vars

\* C20 witness: an instance that found the extension available has opened a
\* later connection, which did not probe again.
C20_Witness ==
    /\ backend = "sqlite"
    /\ pc = "fts"
    /\ vec_available = "True"
    /\ ~conn["ext"]

\* ------------------------------------------------ construction, connectors

\* A required connection parameter of the instance is missing: for
\* PostgreSQL the database and the connection string both, for MySQL the
\* database or the user, for SQLite the path of the database file.
RequiredMissing(class, fields) ==
    CASE class \in {"PostgresBackend", "PostgresConnector"} ->
            Falsy(fields["connection_string"]) /\ Falsy(fields["database"])
      [] class \in {"MySQLBackend", "MySQLConnector"} ->
            Falsy(fields["database"]) \/ Falsy(fields["user"])
      [] OTHER ->
            Falsy(fields["db_path"])

\* C17: no backend or connector is constructed with a required connection
\* parameter missing, so none reaches search, startup or query with one
\* missing.
C17_ConfigurationCheckedAtConstruction ==
    instance["class"] # None => ~RequiredMissing(instance["class"], instance)

\* C18: query returns [] when the statement yields no rows or fails as a
\* statement, and raises when the connection is refused or times out; it
\* never returns [] for a refused connection.
C18_QueryRaisesOnHardFailure ==
    pc = "queried" =>
        /\ reply["cause"] \in {"no_rows", "statement"} =>
              (outcome = "ok" /\ Len(results) = 0)
        /\ reply["cause"] \in {"refused", "timeout"} => outcome = "raise"

\* C19: ping never raises, returns False on every failure (refused
\* connection, timeout, missing client binary, missing file), and returns
\* True only when the database answered the probe with 1.
C19_PingNeverRaises ==
    pc = "pinged" =>
        /\ outcome \in {"True", "False"}
        /\ reply["cause"] \in ProbeFailures => outcome = "False"
        /\ outcome = "True" => reply["cause"] = "answered"

\* C19 witness: a ping whose client binary is missing has returned False.
C19_Witness ==
    /\ pc = "pinged"
    /\ reply["cause"] = "no_binary"
    /\ outcome = "False"

\* ------------------------------------------- search: the order of the stages

\* C21: the extension is loaded at most once per SQLiteBackend instance over
\* any sequence of startup and search calls, and the instance holds a cached
\* result exactly when that one probe has run, so a call on a probed
\* instance uses the cached result and loads nothing.
C21_ProbeAtMostOnce ==
    /\ issued["probe"] <= 1
    /\ (vec_available # None) <=> (issued["probe"] = 1)

\* A later startup call holds a connection of an instance whose probe failed
\* in an earlier call: nothing went wrong in this call, and the probe count
\* is still one.
C21_Witness ==
    /\ backend = "sqlite"
    /\ pc = "startup"
    /\ faults = {}
    /\ vec_available = "False"
    /\ issued["probe"] = 1
    /\ conn["open"]

\* A probe has just failed in this step.
ProbeFailedNow == \E o \in ProbeOutcomes : <<"probe", o>> \in faults' \ faults

\* C22: a step in which loading the extension fails leaves the cached state
\* at unavailable ("False") and does not raise: the call goes on to its next
\* statement.
C22_ProbeFailureIsUnavailable ==
    [][ProbeFailedNow => (vec_available' = "False" /\ pc' # "raised")]_vars

\* A search call goes on to its lexical query after enable_load_extension
\* failed.
C22_Witness ==
    /\ backend = "sqlite"
    /\ pc = "fts"
    /\ <<"probe", "not_permitted">> \in faults
    /\ vec_available = "False"

\* C23 as stated: on every backend a vector query has been issued in the
\* call only if the probe recorded available and the embedding is a vector,
\* and a call that reaches fusion without a vector query passes the empty
\* vector list.
C23_VectorNeedsProbeAndEmbedding ==
    /\ issued["vector"] >= 1 => (vec_available = "True" /\ embedding = "vector")
    /\ (pc \in {"fuse", "returned"} /\ issued["vector"] = 0) => vector_results = <<>>

\* C23, amended: SQLite issues the vector query only if the probe recorded
\* available and the embedding is a vector; PostgreSQL, which has no probe,
\* only if the embedding is a vector; MySQL never; and a call that reaches
\* fusion without a vector query passes the empty vector list.
C23_VectorNeedsEmbedding ==
    /\ issued["vector"] >= 1 =>
          /\ backend \in {"sqlite", "postgres"}
          /\ embedding = "vector"
          /\ backend = "sqlite" => vec_available = "True"
    /\ (pc \in {"fuse", "returned"} /\ issued["vector"] = 0) => vector_results = <<>>

\* A SQLite call has issued its vector query, with the extension recorded as
\* available and an embedding, and holds the rows before fusion.
C23_Witness ==
    /\ backend = "sqlite"
    /\ pc = "fuse"
    /\ issued["vector"] = 1
    /\ vec_available = "True"
    /\ embedding = "vector"
    /\ Len(vector_results) >= 1

\* C24: in every search call the lexical query has been issued before the
\* embedding is requested, before the vector query and before fusion or
\* shaping, whatever the capability state and the embedding; a call ends
\* without having issued it only when its connection could not be opened.
C24_LexicalAlwaysFirst ==
    /\ pc \in {"embed", "vector", "fuse", "like", "shape", "returned"} =>
          issued["lexical"] = 1
    /\ issued["embed"] + issued["vector"] + issued["like"] >= 1 =>
          issued["lexical"] = 1
    /\ (pc = "raised" /\ issued["lexical"] = 0) =>
          <<"connect", "unreachable">> \in faults

\* A SQLite call on an instance without the extension has returned records,
\* having issued the lexical query and nothing else.
C24_Witness ==
    /\ backend = "sqlite"
    /\ pc = "returned"
    /\ vec_available = "False"
    /\ issued["lexical"] = 1
    /\ issued["embed"] = 0
    /\ Len(results) >= 1

\* C25: within one search call the embedding is requested at most once and
\* the vector query is issued at most once, and a call whose embedding or
\* vector query failed goes on to fusion with the empty vector list (the leg
\* is absent) instead of trying again or raising.
C25_NoRetry ==
    /\ issued["embed"] <= 1
    /\ issued["vector"] <= 1
    /\ (EmbeddingFailed \/ VectorQueryFailed) =>
          /\ pc \in {"fuse", "returned"}
          /\ vector_results = <<>>

\* C27: a SQLite call that is about to issue its vector query (the cached
\* capability is available and an embedding was obtained) holds a connection
\* on which the extension has been loaded.
C27_VectorQueryHasExtension ==
    (backend = "sqlite" /\ pc = "vector") => conn["ext"]

\* C28: whenever a SQLite search or startup call has returned or raised, and
\* whenever a MySQL _query call has returned or raised (between the calls of
\* _query and after search), no connection is open.
C28_ConnectionsClosed ==
    pc \in {"idle", "returned", "raised", "started", "like", "shape"} =>
       ~conn["open"]

\* A SQLite search has raised out of its failing vector query, and the
\* connection it had opened is closed.
C28_Witness ==
    /\ backend = "sqlite"
    /\ pc = "raised"
    /\ issued["vector"] = 1
    /\ <<"vector", "capability">> \in faults
    /\ ~conn["open"]

\* ------------------------------------------------ fusion on repeated ids

\* The contributions of the places from j on at which id stands in list.
RECURSIVE ContributionsFrom(_, _, _)
ContributionsFrom(list, id, j) ==
    IF j > Len(list) THEN 0
    ELSE (IF list[j]["id"] = id THEN Contribution(K, j - 1) ELSE 0)
         + ContributionsFrom(list, id, j + 1)

\* C29: the list fusion returns holds no id twice, for all inputs, lists that
\* repeat an id included, and the score of every returned id is the sum of
\* the contributions of all the places at which the id stands in the two
\* lists (rounded to six decimals in the record).
C29_NoDuplicateIds ==
    Returned =>
        /\ UniqueIds(results)
        /\ \A j \in DOMAIN results :
              LET id  == results[j]["id"]
                  sum == ContributionsFrom(fts_results, id, 1)
                         + ContributionsFrom(vector_results, id, 1)
              IN  /\ Cumulative(id) = sum
                  /\ results[j]["score"] = Round6(sum, Den)

\* Fusion has returned an id that stands twice in the lexical list and also
\* in the vector list.
C29_Witness ==
    /\ Returned
    /\ \E id \in IdSet(results) :
          /\ Cardinality(RanksOf(fts_results, id)) >= 2
          /\ RanksOf(vector_results, id) # {}

\* --------------------------------------------------- concurrent callers

\* C26: once a value has been written to the capability cache, the cache
\* holds the value written first, whatever the interleaving of the callers
\* and whatever a later probe gave.
C26_FirstWriteWins == Len(writes) >= 1 => vec_available = writes[1]

\* --------------------------------------------------- re-embedding scripts

\* The first row index of every pass of the loop.
BatchStarts ==
    {b \in 0..script["total"] - 1 : b % BatchSize(script["program"]) = 0}

\* C30: at every moment each batch is in the table as a whole or not at
\* all; between the passes of the loop no transaction is open, updated is
\* the number of rows whose embedding is committed and updated + errors is
\* the number of rows gone through; when the loop has terminated
\* updated + errors = total.
C30_BatchesAtomic ==
    script["program"] # None =>
        /\ \A b \in BatchStarts :
              LET batch == Batch(script["program"], b, script["total"])
              IN  batch \subseteq script["table"] \/ batch \cap script["table"] = {}
        /\ script["updated"] = Cardinality(script["table"])
        /\ script["pc"] \in {"loop", "done"} =>
              /\ script["pending"] = {}
              /\ script["updated"] + script["errors"] = Min(script["i"], script["total"])
        /\ script["pc"] = "done" =>
              script["updated"] + script["errors"] = script["total"]

\* reembed.py has terminated with committed batches and with rolled-back
\* ones, the last batch shorter than BATCH_SIZE.
C30_Witness ==
    /\ script["program"] = "reembed"
    /\ script["pc"] = "done"
    /\ script["total"] % BATCH_SIZE # 0
    /\ script["updated"] > 0
    /\ script["errors"] > 0
    /\ script["table"] # {}

====
